---- MODULE Spec2Model ----
(***************************************************************************)
(* crhelper.py: one invocation of cfn_handler racing the threading.Timer   *)
(* that runs lambda_timeout.  The main path and the timer thread are two   *)
(* processes; a step of either is one action.  Every call of send_cfn      *)
(* appends the response body it puts on the wire to `sent`.                *)
(***************************************************************************)
EXTENDS Integers, Sequences, FiniteSets, TLC

\* Longest tuple a handler of the model returns.
MaxTupleLen == 3

SUCCESS == "SUCCESS"
FAILED == "FAILED"

LogGroupName == "log-group"
LogStreamName == "log-stream"

----------------------------------------------------------------------------
(* Python values.  A value is a record of one shape: kind is the Python    *)
(* type, s the content of a str (or the name of a dict's content), elems   *)
(* the members of a tuple.                                                 *)

Str(s) == [kind |-> "str", s |-> s, elems |-> <<>>]
Dict(name) == [kind |-> "dict", s |-> name, elems |-> <<>>]
NoneV == [kind |-> "NoneType", s |-> "", elems |-> <<>>]
IntV == [kind |-> "int", s |-> "7", elems |-> <<>>]
Tuple(es) == [kind |-> "tuple", s |-> "", elems |-> es]

EmptyDict == Dict("{}")

Atoms == {Str(""), Str("pid-123"), EmptyDict, Dict("{k:v}"), NoneV, IntV}

TuplesOf(n) == {Tuple(es) : es \in [1..n -> Atoms]}

\* What a create, update or delete function of the integrator may return.
HandlerValues == Atoms \cup UNION {TuplesOf(n) : n \in 1..MaxTupleLen}

\* type(v) as Python prints it in an f-string.
TypeName(v) == <<"<class '", v.kind, "'>">>

\* Python truthiness of the values send_cfn tests with `or` / `if`.
Truthy(v) ==
    CASE v.kind = "NoneType" -> FALSE
      [] v.kind = "str" -> v.s # ""
      [] v.kind = "dict" -> v.s # "{}"
      [] v.kind = "tuple" -> Len(v.elems) > 0
      [] OTHER -> TRUE

----------------------------------------------------------------------------
(* Exceptions: class name and str(exc), the message as a list of pieces.   *)

Exc(cls, msg) == [cls |-> cls, msg |-> msg]
NoExc == Exc("", <<>>)
HTTPError == Exc("HTTPError", <<"non-2xx answer">>)
HandlerError == Exc("RuntimeError", <<"boom">>)
TimeoutMsg == <<"Execution is about to time out, sending failure message">>

----------------------------------------------------------------------------
RequestTypes == {"Create", "Update", "Delete", "Other", "create"}
Handlers == {"create", "update", "delete"}

VARIABLES
    event,                  \* the request from CloudFormation
    pc,                     \* position of the main path in cfn_handler
    timeout_timer,          \* state of the threading.Timer
    sent,                   \* response bodies PUT so far, in order
    physical_resource_id,   \* local of cfn_handler
    response_data,          \* local of cfn_handler
    exc,                    \* exception in flight on the main path
    raised,                 \* what cfn_handler raised to its caller
    timer_raised,           \* what lambda_timeout raised in the timer thread
    calls,                  \* how often each handler was invoked
    handler_out             \* what the invoked handler did

vars == <<event, pc, timeout_timer, sent, physical_resource_id, response_data,
          exc, raised, timer_raised, calls, handler_out>>

NoOut == [how |-> "none", value |-> NoneV, exc |-> NoExc]

----------------------------------------------------------------------------
(* send_cfn: the body it serialises.  reason is a list of pieces, empty    *)
(* for None; site and delivered record which call sent it and whether the  *)
(* PUT was answered 2xx.                                                   *)

default_reason ==
    <<"See the details in CloudWatch Log group ", LogGroupName, " Stream: ", LogStreamName>>

response_body_IgnorePid(response_status, data, reason, pid, site, ok) ==
    [Status |-> response_status,
     Reason |-> IF reason # <<>> THEN reason \o <<".. ">> \o default_reason
                ELSE default_reason,
     PhysicalResourceId |-> LogStreamName,
     StackId |-> event.StackId,
     RequestId |-> event.RequestId,
     LogicalResourceId |-> event.LogicalResourceId,
     Data |-> data,
     site |-> site,
     delivered |-> ok]

response_body(response_status, data, reason, pid, site, ok) ==
    [Status |-> response_status,
     Reason |-> IF reason # <<>> THEN reason \o <<".. ">> \o default_reason
                ELSE default_reason,
     PhysicalResourceId |-> IF Truthy(pid) THEN pid.s ELSE LogStreamName,
     StackId |-> event.StackId,
     RequestId |-> event.RequestId,
     LogicalResourceId |-> event.LogicalResourceId,
     Data |-> data,
     site |-> site,
     delivered |-> ok]

----------------------------------------------------------------------------
(* execute_handler, after the handler has returned `ret`.                  *)

Raise(e) == [ok |-> FALSE, exc |-> e, value |-> NoneV]
Return(v) == [ok |-> TRUE, exc |-> NoExc, value |-> v]

Wrap_NoWrap(ret, delete) == ret

Wrap(ret, delete) == IF delete THEN Tuple(<<ret, EmptyDict>>) ELSE ret

Validate_DataFirst(response, name) ==
    IF response.kind # "tuple" \/ Len(response.elems) # 2
    THEN Raise(Exc("TypeError",
            <<"Error during ", name, " does not return tuple(PhysicalResourceId, Data).">>))
    ELSE IF response.elems[2].kind # "dict"
    THEN Raise(Exc("TypeError",
            <<"Data is not dictionary, but ">> \o TypeName(response.elems[2]) \o <<".">>))
    ELSE IF response.elems[1].kind # "str"
    THEN Raise(Exc("ValueError",
            <<"PhysicalResourceId is not string, but ">> \o TypeName(response.elems[1]) \o <<".">>))
    ELSE Return(response)

Validate(response, name) ==
    IF response.kind # "tuple" \/ Len(response.elems) # 2
    THEN Raise(Exc("TypeError",
            <<"Error during ", name, " does not return tuple(PhysicalResourceId, Data).">>))
    ELSE IF response.elems[1].kind # "str"
    THEN Raise(Exc("ValueError",
            <<"PhysicalResourceId is not string, but ">> \o TypeName(response.elems[1]) \o <<".">>))
    ELSE IF response.elems[2].kind # "dict"
    THEN Raise(Exc("TypeError",
            <<"Data is not dictionary, but ">> \o TypeName(response.elems[2]) \o <<".">>))
    ELSE Return(response)

execute_handler(ret, name, delete) == Validate(Wrap(ret, delete), name)

----------------------------------------------------------------------------
(* The branch of cfn_handler on event["RequestType"]: the handler it calls *)
(* ("" for the else branch) and the delete flag it passes.                 *)

SelectHandler_Swapped(rt) ==
    CASE rt = "Create" -> "create"
      [] rt = "Update" -> "create"
      [] rt = "Delete" -> "delete"
      [] OTHER -> ""

SelectHandler(rt) ==
    CASE rt = "Create" -> "create"
      [] rt = "Update" -> "update"
      [] rt = "Delete" -> "delete"
      [] OTHER -> ""

DeleteFlag(rt) == rt = "Delete"

----------------------------------------------------------------------------
Init ==
    /\ event \in [RequestType : RequestTypes, StackId : {"S1"}, RequestId : {"R1"},
                  LogicalResourceId : {"L1"}, PhysicalResourceId : {"old-pid"},
                  ResponseURL : {"U"}]
    /\ pc = "start"
    /\ timeout_timer = "idle"
    /\ sent = <<>>
    /\ physical_resource_id = NoneV
    /\ response_data = EmptyDict
    /\ exc = NoExc
    /\ raised = NoExc
    /\ timer_raised = NoExc
    /\ calls = [h \in Handlers |-> 0]
    /\ handler_out = NoOut

\* timeout_timer = threading.Timer(...); timeout_timer.start(); the locals.
StartTimer ==
    /\ pc = "start"
    /\ timeout_timer' = "armed"
    /\ physical_resource_id' = NoneV
    /\ response_data' = EmptyDict
    /\ pc' = "dispatch"
    /\ UNCHANGED <<event, sent, exc, raised, timer_raised, calls, handler_out>>

\* Create / Update / Delete: execute_handler calls handler(event, context).
CallHandler ==
    /\ pc = "dispatch"
    /\ SelectHandler(event.RequestType) # ""
    /\ calls' = [calls EXCEPT ![SelectHandler(event.RequestType)] = @ + 1]
    /\ pc' = "in_handler"
    /\ UNCHANGED <<event, timeout_timer, sent, physical_resource_id, response_data,
                   exc, raised, timer_raised, handler_out>>

\* else: send_cfn(FAILED, None, "Unsupported RequestType: ..."), and on to line 157.
Unsupported ==
    /\ pc = "dispatch"
    /\ SelectHandler(event.RequestType) = ""
    /\ \E ok \in BOOLEAN :
        /\ sent' = Append(sent, response_body(FAILED, NoneV,
                        <<"Unsupported RequestType: ", event.RequestType>>,
                        NoneV, "unsupported", ok))
        /\ IF ok THEN pc' = "send_success" /\ exc' = exc
                 ELSE pc' = "except" /\ exc' = HTTPError
    /\ UNCHANGED <<event, timeout_timer, physical_resource_id, response_data,
                   raised, timer_raised, calls, handler_out>>

\* The handler returns ret; execute_handler checks it; cfn_handler unpacks the pair.
HandlerReturns ==
    /\ pc = "in_handler"
    /\ \E ret \in HandlerValues :
        LET r == execute_handler(ret, SelectHandler(event.RequestType),
                                 DeleteFlag(event.RequestType)) IN
        /\ handler_out' = [how |-> "returned", value |-> ret, exc |-> r.exc]
        /\ IF r.ok
           THEN /\ physical_resource_id' = r.value.elems[1]
                /\ response_data' = r.value.elems[2]
                /\ exc' = exc
                /\ pc' = "send_success"
           ELSE /\ exc' = r.exc
                /\ pc' = "except"
                /\ UNCHANGED <<physical_resource_id, response_data>>
    /\ UNCHANGED <<event, timeout_timer, sent, raised, timer_raised, calls>>

\* The handler raises.
HandlerRaises ==
    /\ pc = "in_handler"
    /\ handler_out' = [how |-> "raised", value |-> NoneV, exc |-> HandlerError]
    /\ exc' = HandlerError
    /\ pc' = "except"
    /\ UNCHANGED <<event, timeout_timer, sent, physical_resource_id, response_data,
                   raised, timer_raised, calls>>

\* The handler never comes back.
HandlerBlocks ==
    /\ pc = "in_handler"
    /\ handler_out' = [how |-> "blocked", value |-> NoneV, exc |-> NoExc]
    /\ pc' = "blocked"
    /\ UNCHANGED <<event, timeout_timer, sent, physical_resource_id, response_data,
                   exc, raised, timer_raised, calls>>

\* send_cfn(event, context, SUCCESS, response_data, physical_resource_id=...)
SendSuccess_OutsideTry ==
    /\ pc = "send_success"
    /\ \E ok \in BOOLEAN :
        /\ sent' = Append(sent, response_body(SUCCESS, response_data, <<>>,
                                              physical_resource_id, "success", ok))
        /\ IF ok THEN pc' = "finally" /\ exc' = exc /\ raised' = raised
                 ELSE pc' = "finally" /\ exc' = HTTPError /\ raised' = HTTPError
    /\ UNCHANGED <<event, timeout_timer, physical_resource_id, response_data,
                   timer_raised, calls, handler_out>>

SendSuccess ==
    /\ pc = "send_success"
    /\ \E ok \in BOOLEAN :
        /\ sent' = Append(sent, response_body(SUCCESS, response_data, <<>>,
                                              physical_resource_id, "success", ok))
        /\ IF ok THEN pc' = "finally" /\ exc' = exc
                 ELSE pc' = "except" /\ exc' = HTTPError
    /\ UNCHANGED <<event, timeout_timer, physical_resource_id, response_data,
                   raised, timer_raised, calls, handler_out>>

\* except Exception as exc: send_cfn(FAILED, None, "<class>: <message>"); raise
ExceptBlock_Swallow ==
    /\ pc = "except"
    /\ \E ok \in BOOLEAN :
        /\ sent' = Append(sent, response_body(FAILED, NoneV,
                        <<exc.cls, ": ">> \o exc.msg, NoneV, "except", ok))
        /\ raised' = NoExc
    /\ pc' = "finally"
    /\ UNCHANGED <<event, timeout_timer, physical_resource_id, response_data,
                   exc, timer_raised, calls, handler_out>>

ExceptBlock_WithPid ==
    /\ pc = "except"
    /\ \E ok \in BOOLEAN :
        /\ sent' = Append(sent, response_body(FAILED, NoneV,
                        <<exc.cls, ": ">> \o exc.msg, physical_resource_id, "except", ok))
        /\ raised' = IF ok THEN exc ELSE HTTPError
    /\ pc' = "finally"
    /\ UNCHANGED <<event, timeout_timer, physical_resource_id, response_data,
                   exc, timer_raised, calls, handler_out>>

ExceptBlock ==
    /\ pc = "except"
    /\ \E ok \in BOOLEAN :
        /\ sent' = Append(sent, response_body(FAILED, NoneV,
                        <<exc.cls, ": ">> \o exc.msg, NoneV, "except", ok))
        /\ raised' = IF ok THEN exc ELSE HTTPError
    /\ pc' = "finally"
    /\ UNCHANGED <<event, timeout_timer, physical_resource_id, response_data,
                   exc, timer_raised, calls, handler_out>>

\* finally: timeout_timer.cancel()
Finally_NoCancel ==
    /\ pc = "finally"
    /\ timeout_timer' = IF timeout_timer = "armed" /\ raised = NoExc
                        THEN "cancelled" ELSE timeout_timer
    /\ pc' = "done"
    /\ UNCHANGED <<event, sent, physical_resource_id, response_data, exc, raised,
                   timer_raised, calls, handler_out>>

Finally ==
    /\ pc = "finally"
    /\ timeout_timer' = IF timeout_timer = "armed" THEN "cancelled" ELSE timeout_timer
    /\ pc' = "done"
    /\ UNCHANGED <<event, sent, physical_resource_id, response_data, exc, raised,
                   timer_raised, calls, handler_out>>

\* The timer thread: the interval elapses before cancel() and it calls lambda_timeout.
TimerExpires ==
    /\ timeout_timer = "armed"
    /\ timeout_timer' = "firing"
    /\ UNCHANGED <<event, pc, sent, physical_resource_id, response_data, exc, raised,
                   timer_raised, calls, handler_out>>

\* lambda_timeout: send_cfn(FAILED, {}, reason=msg); raise Exception(msg)
lambda_timeout_NoSend ==
    /\ timeout_timer = "firing"
    /\ timer_raised' = Exc("Exception", TimeoutMsg)
    /\ timeout_timer' = "fired"
    /\ UNCHANGED <<event, pc, sent, physical_resource_id, response_data, exc, raised,
                   calls, handler_out>>

lambda_timeout ==
    /\ timeout_timer = "firing"
    /\ \E ok \in BOOLEAN :
        /\ sent' = Append(sent, response_body(FAILED, EmptyDict, TimeoutMsg,
                                              NoneV, "guard", ok))
        /\ timer_raised' = IF ok THEN Exc("Exception", TimeoutMsg) ELSE HTTPError
    /\ timeout_timer' = "fired"
    /\ UNCHANGED <<event, pc, physical_resource_id, response_data, exc, raised,
                   calls, handler_out>>

MainPath ==
    \/ StartTimer
    \/ CallHandler
    \/ Unsupported
    \/ HandlerReturns
    \/ HandlerRaises
    \/ HandlerBlocks
    \/ SendSuccess
    \/ ExceptBlock
    \/ Finally

TimerThread ==
    \/ TimerExpires
    \/ lambda_timeout

Next == MainPath \/ TimerThread

Spec == Init /\ [][Next]_vars

\* Both threads get the processor; the timer's interval elapses unless it is cancelled.
FairSpec == Spec /\ WF_vars(MainPath) /\ WF_vars(TimerThread)

TypeOK ==
    /\ pc \in {"start", "dispatch", "in_handler", "blocked", "send_success",
               "except", "finally", "done"}
    /\ timeout_timer \in {"idle", "armed", "firing", "fired", "cancelled"}
    /\ Len(sent) <= 4

----------------------------------------------------------------------------
(* Vocabulary of the properties.                                           *)

Sends == 1..Len(sent)
MainSites == {"unsupported", "success", "except"}
KnownType == event.RequestType \in {"Create", "Update", "Delete"}
GuardNeverFired == timeout_timer \in {"armed", "cancelled"}
Finished == pc = "done"
ExcReason(e) == <<e.cls, ": ">> \o e.msg \o <<".. ">> \o default_reason

----------------------------------------------------------------------------
\* C1: in one invocation of cfn_handler at most one Terminal Response is sent,
\* whatever the interleaving of the main path and the timer thread, the request
\* type and the handler's outcome (stated for the runs in which every PUT is
\* answered 2xx, so that no delivery error is involved).
C1_AtMostOneResponse == (\A i \in Sends : sent[i].delivered) => Len(sent) <= 1

\* C2: for a Create, Update or Delete request cfn_handler invokes the handler of
\* that name exactly once and neither of the other two.
C2_NamedHandlerOnly ==
    /\ pc \in {"start", "dispatch"} => \A h \in Handlers : calls[h] = 0
    /\ (KnownType /\ pc \notin {"start", "dispatch"}) =>
        /\ event.RequestType = "Create" => calls = [create |-> 1, update |-> 0, delete |-> 0]
        /\ event.RequestType = "Update" => calls = [create |-> 0, update |-> 1, delete |-> 0]
        /\ event.RequestType = "Delete" => calls = [create |-> 0, update |-> 0, delete |-> 1]

C2_Witness ==
    /\ Finished
    /\ event.RequestType = "Update"
    /\ calls["update"] = 1
    /\ handler_out.how = "returned"

\* C3: for a request type other than Create, Update, Delete, cfn_handler invokes
\* no handler and sends exactly one response, Failed, whose reason contains the
\* unsupported value; nothing else is sent in that invocation.
C3_UnsupportedOneFailed ==
    (/\ ~KnownType
     /\ Finished
     /\ timeout_timer = "cancelled"
     /\ \A i \in Sends : sent[i].delivered)
    => /\ \A h \in Handlers : calls[h] = 0
       /\ Len(sent) = 1
       /\ sent[1].Status = FAILED
       /\ \E k \in 1..Len(sent[1].Reason) : sent[1].Reason[k] = event.RequestType

\* C4 as stated: when the handler raises or execute_handler rejects its result and
\* the guard does not fire, exactly one response is sent, Failed with the reason
\* "<class>: <message>", and cfn_handler re-raises that same exception.
C4_ReraisesSame ==
    (Finished /\ timeout_timer = "cancelled" /\ handler_out.exc # NoExc)
    => /\ Len(sent) = 1
       /\ sent[1].Status = FAILED
       /\ sent[1].Reason = ExcReason(handler_out.exc)
       /\ raised = handler_out.exc

\* C4 amended: ... exactly one response is sent, Failed with the reason
\* "<class>: <message>"; cfn_handler then re-raises that same exception if the
\* Failed response was delivered, and raises the delivery error if it was not.
C4_ReraisesSameIfDelivered ==
    (Finished /\ timeout_timer = "cancelled" /\ handler_out.exc # NoExc)
    => /\ Len(sent) = 1
       /\ sent[1].Status = FAILED
       /\ sent[1].Reason = ExcReason(handler_out.exc)
       /\ raised = IF sent[1].delivered THEN handler_out.exc ELSE HTTPError

C4_Witness ==
    /\ Finished
    /\ timeout_timer = "cancelled"
    /\ handler_out.how = "returned"
    /\ handler_out.exc.cls = "TypeError"
    /\ Len(sent) = 1
    /\ sent[1].delivered
    /\ raised = handler_out.exc

\* C5 as stated: after a failed delivery of a response of the main path (the
\* Success response included) cfn_handler attempts no further delivery, and the
\* delivery error reaches the caller.
C5_NoFurtherAttempt ==
    /\ \A i, j \in Sends :
        (i < j /\ sent[i].site \in MainSites /\ ~sent[i].delivered)
            => sent[j].site \notin MainSites
    /\ (Finished /\ \E i \in Sends : sent[i].site \in MainSites /\ ~sent[i].delivered)
            => raised = HTTPError

\* C5 amended: after a failed delivery of the Failed response of the except block
\* cfn_handler attempts no further delivery; after a failed delivery inside the try
\* block (the Success response, or the Failed response for an unsupported type) the
\* except block makes exactly one further attempt, a Failed response naming the
\* delivery error; in both cases cfn_handler ends by raising a delivery error.
C5_OneFailedAfterTryDelivery ==
    /\ \A i, j \in Sends :
        (i < j /\ sent[i].site = "except" /\ ~sent[i].delivered)
            => sent[j].site \notin MainSites
    /\ \A i \in Sends :
        (/\ sent[i].site \in {"unsupported", "success"}
         /\ ~sent[i].delivered
         /\ pc \in {"finally", "done"})
        => \E j \in Sends :
            /\ i < j
            /\ sent[j].site = "except"
            /\ sent[j].Status = FAILED
            /\ sent[j].Reason = ExcReason(HTTPError)
            /\ \A k \in Sends : (i < k /\ sent[k].site \in MainSites) => k = j
    /\ (Finished /\ \E i \in Sends : sent[i].site \in MainSites /\ ~sent[i].delivered)
            => raised = HTTPError

C5_Witness ==
    /\ Finished
    /\ \E i, j \in Sends :
        /\ i < j
        /\ sent[i].site = "success" /\ ~sent[i].delivered
        /\ sent[j].site = "except" /\ sent[j].delivered
    /\ raised = HTTPError

\* C6: once the guard has sent its Failed response, the main path sends neither
\* Success nor Failed in that invocation.
C6_NoMainSendAfterGuard ==
    \A i, j \in Sends :
        (i < j /\ sent[i].site = "guard") => sent[j].site \notin MainSites

\* C7: once the main path has sent a Terminal Response, the guard does not fire in
\* that invocation, the window before timeout_timer.cancel() included.
C7_NoGuardAfterMainSend ==
    [][(\E i \in Sends : sent[i].site \in MainSites)
            => ~(timeout_timer = "armed" /\ timeout_timer' = "firing")]_vars

\* C8: on every exit path of cfn_handler the timer has been cancelled before
\* control leaves, so the guard is not armed once cfn_handler has finished; the
\* cancel of a guard that already fired changes nothing.
C8_CancelledOnEveryExit ==
    [][/\ pc' = "done" => timeout_timer' \notin {"idle", "armed"}
       /\ (pc = "finally" /\ pc' = "done" /\ timeout_timer # "armed")
            => (timeout_timer' = timeout_timer /\ sent' = sent
                /\ timer_raised' = timer_raised)]_vars

C8_Witness ==
    /\ Finished
    /\ timeout_timer = "cancelled"
    /\ handler_out.how = "raised"
    /\ raised = HTTPError

\* C9: under fair scheduling of both threads every invocation eventually sends a
\* Terminal Response, whether the handler returns, raises or blocks for ever.
C9_EventuallyResponds == <>(Len(sent) > 0)

C9_Witness ==
    /\ handler_out.how = "blocked"
    /\ Len(sent) = 1
    /\ sent[1].site = "guard"

----------------------------------------------------------------------------
\* C11: every Failed Terminal Response carries an empty mapping as its Data, on
\* the guard's path, the unsupported-type path and the except path alike.
C11_FailedDataEmpty ==
    \A i \in Sends : sent[i].Status = FAILED => sent[i].Data = EmptyDict

\* C12: a handler result whose physical_resource_id is the empty string is
\* rejected by execute_handler, so no Success response is sent in an invocation
\* whose handler returned such a result.
C12_EmptyIdRejected ==
    LET v == handler_out.value
        id == IF event.RequestType = "Delete" THEN v
              ELSE IF v.kind = "tuple" /\ Len(v.elems) = 2 THEN v.elems[1] ELSE NoneV
    IN  (handler_out.how = "returned" /\ id = Str(""))
        => /\ handler_out.exc # NoExc
           /\ \A i \in Sends : sent[i].Status # SUCCESS

\* C13: whenever cfn_handler ends by raising to its caller, a Failed Terminal
\* Response was sent earlier in that invocation by the main path.
C13_RaiseOnlyAfterFailed ==
    (pc \in {"finally", "done"} /\ raised # NoExc)
    => \E i \in Sends : sent[i].site \in MainSites /\ sent[i].Status = FAILED

C13_Witness ==
    /\ Finished
    /\ raised = HandlerError
    /\ Len(sent) = 1
    /\ sent[1].Status = FAILED
    /\ sent[1].site = "except"

\* C14: execute_handler checks the (delete-wrapped) result in the order 2-tuple,
\* first element a str, second element a dict, reports the first check that fails
\* and returns the result unchanged exactly when all three pass.
C14_FirstFailingCheck ==
    handler_out.how = "returned" =>
        LET v == handler_out.value
            w == IF event.RequestType = "Delete"
                 THEN [kind |-> "tuple", s |-> "", elems |-> <<v, [kind |-> "dict", s |-> "{}", elems |-> <<>>]>>]
                 ELSE v
            a == w.kind = "tuple" /\ Len(w.elems) = 2
            b == w.elems[1].kind = "str"
            c == w.elems[2].kind = "dict"
            e == handler_out.exc
        IN  /\ ~a => e.cls = "TypeError" /\ e.msg[1] = "Error during "
            /\ (a /\ ~b) => e.cls = "ValueError" /\ e.msg[1] = "PhysicalResourceId is not string, but "
            /\ (a /\ b /\ ~c) => e.cls = "TypeError" /\ e.msg[1] = "Data is not dictionary, but "
            /\ (a /\ b /\ c) <=> e = NoExc
            /\ e = NoExc => physical_resource_id = w.elems[1] /\ response_data = w.elems[2]

C14_Witness ==
    /\ handler_out.how = "returned"
    /\ event.RequestType = "Create"
    /\ handler_out.value.kind = "tuple"
    /\ Len(handler_out.value.elems) = 2
    /\ handler_out.value.elems[1].kind = "int"
    /\ handler_out.value.elems[2].kind = "NoneType"
    /\ handler_out.exc.cls = "ValueError"

C16_SuccessOnlyAfterValidResult ==
    \A i \in Sends : sent[i].Status = SUCCESS =>
        /\ calls["create"] + calls["update"] + calls["delete"] = 1
        /\ handler_out.how = "returned"
        /\ handler_out.exc = NoExc

\* C17: every Failed response carries the context's log stream name as
\* PhysicalResourceId, not the id of the request nor one returned by a handler.
C17_FailedCarriesLogStream ==
    \A i \in Sends : sent[i].Status = FAILED =>
        /\ sent[i].PhysicalResourceId = LogStreamName
        /\ sent[i].PhysicalResourceId # event.PhysicalResourceId
        /\ physical_resource_id.s # "" => sent[i].PhysicalResourceId # physical_resource_id.s

C17_Witness ==
    /\ event.RequestType = "Update"
    /\ physical_resource_id = Str("pid-123")
    /\ \E i, j \in Sends :
        /\ i < j
        /\ sent[i].Status = SUCCESS /\ ~sent[i].delivered
        /\ sent[j].Status = FAILED /\ sent[j].site = "except"
        /\ sent[j].PhysicalResourceId = LogStreamName

\* C18: for a Delete request the handler's value is wrapped as (value, {}) before
\* the checks, so a value that is not a str (a pair included) is rejected with the
\* "PhysicalResourceId is not string" error, never the not-a-2-tuple error, no
\* Success response is sent and the main path ends with a Failed response.
C18_DeleteNonStringRejected ==
    (/\ event.RequestType = "Delete"
     /\ handler_out.how = "returned"
     /\ handler_out.value.kind # "str")
    => /\ handler_out.exc.cls = "ValueError"
       /\ handler_out.exc.msg[1] = "PhysicalResourceId is not string, but "
       /\ \A i \in Sends : sent[i].Status # SUCCESS
       /\ pc \in {"finally", "done"} =>
            \E i \in Sends :
                /\ sent[i].site = "except"
                /\ sent[i].Status = FAILED
                /\ sent[i].Reason = ExcReason(handler_out.exc)
                /\ \A j \in Sends : j > i => sent[j].site = "guard"

C18_Witness ==
    /\ event.RequestType = "Delete"
    /\ handler_out.value = Tuple(<<Str("pid-123"), EmptyDict>>)
    /\ handler_out.exc.cls = "ValueError"
    /\ Finished
    /\ Len(sent) = 1
    /\ sent[1].Status = FAILED

====
